---------------------------- MODULE Spec2Model ----------------------------
(***************************************************************************)
(* FEEN / VCP integration: the stateless resonator stepper                 *)
(* (feen/vcp.py simulate_resonator), the AILEE Delta-v metric              *)
(* (feen/vcp.py compute_delta_v) and the /api/v1/simulate endpoint         *)
(* (api_extension.py simulate).                                            *)
(*                                                                         *)
(* Numbers.  The stepper's quantities (x, v, time, dt, force) are exact    *)
(* integers on a grid: time in time quanta, a frequency in eighths of a    *)
(* cycle per time quantum, a phase in eighths of a turn, so that           *)
(* 2*pi*f*t + phase is f*t + phase eighth-turns and cos is a table.        *)
(* The metric's floats are fixed-point numbers with FScale units per 1.0,  *)
(* finite up to MaxFinite units, with the IEEE specials +inf, -inf and nan *)
(* as three values outside that range; arithmetic saturates to +-inf as    *)
(* IEEE double arithmetic does, and Python's float ** raises OverflowError *)
(* where the result leaves the finite range.                               *)
(***************************************************************************)
EXTENDS Integers, Sequences, FiniteSets

\* ------------------------------------------------------------- bounds
\* Grid units per 1.0 in the metric's fixed-point floats.
FScale == 10
\* Largest finite magnitude of the metric's floats, in grid units.
MaxFinite == 10000
\* Longest sample sequence handed to compute_delta_v.
MaxSamples == 2
\* Largest step count handed to simulate_resonator.
MaxSteps == 3
\* The propagator's x and v wrap into -PropRange..PropRange.
PropRange == 40

\* ------------------------------------------------------------- floats
Inf == MaxFinite + 1
NInf == -(MaxFinite + 1)
NaN == MaxFinite + 2

IsNaN(a) == a = NaN
IsInf(a) == a = Inf \/ a = NInf
IsFinite(a) == ~IsNaN(a) /\ ~IsInf(a)

Abs(n) == IF n < 0 THEN -n ELSE n
Sign(n) == IF n < 0 THEN -1 ELSE IF n > 0 THEN 1 ELSE 0

\* Integer division that rounds toward zero.
TruncDiv(a, b) == Sign(a) * Sign(b) * (Abs(a) \div Abs(b))

\* A real result brought into the float range: beyond it, +-inf.
Sat(n) == IF n > MaxFinite THEN Inf ELSE IF n < -MaxFinite THEN NInf ELSE n

\* float + float
FAdd(a, b) ==
    IF IsNaN(a) \/ IsNaN(b) THEN NaN
    ELSE IF IsInf(a) /\ IsInf(b) THEN (IF a = b THEN a ELSE NaN)
    ELSE IF IsInf(a) THEN a
    ELSE IF IsInf(b) THEN b
    ELSE Sat(a + b)

\* float * float
FMul(a, b) ==
    IF IsNaN(a) \/ IsNaN(b) THEN NaN
    ELSE IF IsInf(a) \/ IsInf(b)
         THEN (IF a = 0 \/ b = 0 THEN NaN
               ELSE IF Sign(a) * Sign(b) > 0 THEN Inf ELSE NInf)
    ELSE Sat(TruncDiv(a * b, FScale))

\* float / float, numpy's: a zero divisor gives +-inf or nan, no exception.
FDiv(a, b) ==
    IF IsNaN(a) \/ IsNaN(b) THEN NaN
    ELSE IF IsInf(a) /\ IsInf(b) THEN NaN
    ELSE IF IsInf(a) THEN (IF Sign(a) * Sign(b) >= 0 THEN Inf ELSE NInf)
    ELSE IF IsInf(b) THEN 0
    ELSE IF b = 0 THEN (IF a = 0 THEN NaN ELSE IF a > 0 THEN Inf ELSE NInf)
    ELSE Sat(TruncDiv(a * FScale, b))

\* -float
FNeg(a) == IF IsNaN(a) THEN NaN ELSE -a

\* 10 * e^q for whole q in -3..7, and 1000 * e^(r/10) for r in 0..9.
ExpWhole == <<0, 1, 4, 10, 27, 74, 201, 546, 1484, 4034, 10966>>
ExpFrac == <<1000, 1105, 1221, 1350, 1492, 1649, 1822, 2014, 2226, 2460>>

\* np.exp: overflows to +inf (a warning, no exception), underflows to 0.
NpExp(a) ==
    IF IsNaN(a) THEN NaN
    ELSE IF a = Inf THEN Inf
    ELSE IF a = NInf THEN 0
    ELSE LET t == (a * 10) \div FScale
             q == t \div 10
             r == t % 10
         IN  IF q > 7 THEN Inf
             ELSE IF q < -3 THEN 0
             ELSE Sat((ExpWhole[q + 4] * ExpFrac[r + 1]) \div 1000)

\* Python's float ** 2: the result, or "OverflowError" where it is raised.
PyOverflows(a) == IsFinite(a) /\ TruncDiv(a * a, FScale) > MaxFinite
PySquare(a) ==
    IF IsNaN(a) THEN NaN
    ELSE IF IsInf(a) THEN Inf
    ELSE TruncDiv(a * a, FScale)

\* Python's max(a, b): b when b > a, else a (so a nan first argument stays).
PyMax(a, b) == IF ~IsNaN(a) /\ ~IsNaN(b) /\ b > a THEN b ELSE a

\* ------------------------------------------------------------- dicts
\* A Python dict is a function from its keys; dict.get(key, default).
Get(d, key, default) == IF key \in DOMAIN d THEN d[key] ELSE default
Has(d, key) == key \in DOMAIN d
Restrict(d, keys) == [k \in keys |-> d[k]]
EmptyDict == [k \in {} |-> 0]


\* ------------------------------------------- the External Propagator
\* pyfeen is not part of this repository: the stepper only calls it.  The
\* model is a damped, driven Duffing oscillator advanced by semi-implicit
\* Euler on the integer grid, whose advance depends only on
\* (config, x, v, applied force, dt).  A zero q_factor divides by zero:
\* the state becomes nan, and stays nan.
PropNaN == PropRange + 1
Wrap(n) == ((n + PropRange) % (2 * PropRange + 1)) - PropRange

NoResonator ==
    [made |-> FALSE, frequency_hz |-> 0, q_factor |-> 0, beta |-> 0,
     x |-> 0, v |-> 0, force |-> 0]

\* pyfeen.Resonator(res_config)
NewResonator(cfg) ==
    [made |-> TRUE, frequency_hz |-> cfg.frequency_hz, q_factor |-> cfg.q_factor,
     beta |-> cfg.beta, x |-> 0, v |-> 0, force |-> 0]

\* Engine-level validation, where the backend has any.
EngineRejects(cfg) == cfg.frequency_hz <= 0 \/ cfg.q_factor <= 0

IsPropNaN(res) == res.x = PropNaN \/ res.v = PropNaN

\* resonator.tick(dt)
Tick(res, d) ==
    IF IsPropNaN(res) \/ res.q_factor = 0
    THEN [res EXCEPT !.x = PropNaN, !.v = PropNaN]
    ELSE LET acc == res.force
                    - res.frequency_hz * res.frequency_hz * res.x
                    - TruncDiv(res.frequency_hz * res.v, res.q_factor)
                    - res.beta * res.x * res.x * res.x
             nv == Wrap(res.v + acc * d)
             nx == Wrap(res.x + nv * d)
         IN  [res EXCEPT !.x = nx, !.v = nv]

\* resonator.total_energy()
TotalEnergy(res) ==
    IF IsPropNaN(res) THEN PropNaN
    ELSE (res.v * res.v + res.frequency_hz * res.frequency_hz * res.x * res.x)
         % (PropRange + 1)

\* resonator.phase(), in eighths of a turn
PhaseOf(res) ==
    IF IsPropNaN(res) THEN PropNaN
    ELSE IF res.v >= 0
         THEN (IF res.x > 0 THEN (IF res.v = 0 THEN 0 ELSE 1)
               ELSE IF res.x = 0 THEN 2 ELSE 3)
         ELSE (IF res.x < 0 THEN 5 ELSE IF res.x = 0 THEN 6 ELSE 7)

\* ------------------------------------------------- simulate_resonator
\* 10 * cos(k * pi / 4), k = 0..7
CosTab == <<10, 7, 0, -7, -10, -7, 0, 7>>
Cos8(a) == CosTab[(a % 8) + 1]

ConfigKeys == <<"frequency_hz", "q_factor", "beta">>
StateKeys == <<"x", "v">>
SignalKeys == <<"frequency_hz", "phase", "amplitude">>

\* The first key of keys (in reading order) that d lacks; 0 when none.
FirstMissing(d, keys) ==
    IF \E n \in 1..Len(keys) : ~Has(d, keys[n])
    THEN CHOOSE n \in 1..Len(keys) :
             ~Has(d, keys[n]) /\ \A m \in 1..(n - 1) : Has(d, keys[m])
    ELSE 0

\* The subscripts d[key] evaluated before the code goes on or raises KeyError.
Attempted(prefix, d, keys) ==
    LET fm == FirstMissing(d, keys)
        last == IF fm = 0 THEN Len(keys) ELSE fm
    IN  {<<prefix, keys[n]>> : n \in 1..last}

\* The availability test left out.
PyfeenNeverNone(present) == FALSE

\* if pyfeen is None
PyfeenIsNone(present) == ~present

\* The clock restarted at 0.0 on every call.
InitialTimeZero(st) == 0

\* current_time = state.get('time', 0.0)
InitialTime(st) == Get(st, "time", 0)

\* The drive's phase offset left out of the force.
DriveForceNoPhase(sig, t) == sig.amplitude * Cos8(sig.frequency_hz * t)

\* force = amplitude * cos(2*pi*frequency_hz * current_time + phase)
DriveForce(sig, t) == sig.amplitude * Cos8(sig.frequency_hz * t + sig.phase)

\* current_time += dt
NextTime(t, d) == t + d

\* for _ in range(steps)
LoopContinues(k, n) == k < n


\* ------------------------------------------------- the endpoint's check
TopKeys == {"config", "state", "input", "dt"}

\* data.get(key) is None when the key is absent; None, {} and 0 are falsy.
TruthyDict(b, key) == key \in b.has /\ DOMAIN b[key] # {}
TruthyNumber(b, key) == key \in b.has /\ b[key] # 0

\* all([config, state, input_signal, dt])
AllTruthy(b) ==
    /\ TruthyDict(b, "config")
    /\ TruthyDict(b, "state")
    /\ TruthyDict(b, "input")
    /\ TruthyNumber(b, "dt")

\* ---------------------------------------------------- compute_delta_v
\* max(s['inertia'], 1e-9): the floor, one grid unit in the model.
INERTIA_FLOOR == 1

ParamKeys == {"isp", "eta", "alpha", "v0"}
SampleKeys == <<"workload", "velocity", "inertia", "dt", "p_input">>

\* alpha defaulting to 1.0 instead of 0.1.
DefaultParamsAlphaOne ==
    [isp |-> FScale, eta |-> FScale, alpha |-> FScale, v0 |-> FScale]

\* params.get('isp', 1.0), ('eta', 1.0), ('alpha', 0.1), ('v0', 1.0)
DefaultParams ==
    [isp |-> FScale, eta |-> FScale, alpha |-> FScale \div 10, v0 |-> FScale]
ParamOf(ps, key) == Get(ps, key, DefaultParams[key])

\* The inertia used as sent, with no floor.
InertiaUnfloored(inertia) == inertia

\* inertia = max(s['inertia'], 1e-9)
InertiaSafe(inertia) == PyMax(inertia, INERTIA_FLOOR)

\* w_gate = np.exp(-alpha * (workload**2))
WGate(a, workload) == NpExp(FMul(FNeg(a), PySquare(workload)))

\* v_gate = np.exp(2 * alpha * v0 * velocity)
VGate(a, v, velocity) == NpExp(FMul(FMul(FMul(2 * FScale, a), v), velocity))

\* integrand = p_input * w_gate * v_gate / inertia
Integrand(s, a, v) ==
    FDiv(FMul(FMul(s.p_input, WGate(a, s.workload)), VGate(a, v, s.velocity)),
         InertiaSafe(s.inertia))

\* integrand * dt, what one sample adds to accumulated
Contribution(s, a, v) == FMul(Integrand(s, a, v), s.dt)

\* outer_scale = isp * eta * np.exp(-alpha * (v0**2))
OuterScale(ip, et, a, v) == FMul(FMul(ip, et), NpExp(FMul(FNeg(a), PySquare(v))))

\* return outer_scale * accumulated
Scaled(scale, acc) == FMul(scale, acc)

\* ------------------------------------------------------------- inputs
\* Samples, in grid units (10 is 1.0).
BaseSample == [p_input |-> 20, workload |-> 0, velocity |-> 0, inertia |-> 10, dt |-> 10]
NegSample == [p_input |-> -10, workload |-> -20, velocity |-> 10, inertia |-> 20, dt |-> -10]
CompleteSamples ==
    { BaseSample, NegSample,
      [BaseSample EXCEPT !.inertia = 0],
      [BaseSample EXCEPT !.inertia = -10],
      [BaseSample EXCEPT !.inertia = INERTIA_FLOOR],
      [NegSample EXCEPT !.inertia = -30],
      [BaseSample EXCEPT !.workload = 400],
      [BaseSample EXCEPT !.velocity = 1000] }
AllSampleKeys == {SampleKeys[n] : n \in 1..Len(SampleKeys)}
PartialSamples ==
    {Restrict(BaseSample, AllSampleKeys \ {k}) : k \in {"workload", "p_input"}}
Samples == CompleteSamples \cup PartialSamples
SampleSeqs == UNION {[1..n -> Samples] : n \in 0..MaxSamples}

FullParams ==
    { [isp |-> ip, eta |-> et, alpha |-> a, v0 |-> v] :
        ip \in {20}, et \in {-10}, a \in {0, -100}, v \in {20, 400} }
ParamDicts == {Restrict(ps, ks) : ps \in FullParams, ks \in SUBSET ParamKeys}

\* The defaults as the documentation states them: 1.0, 1.0, 0.1, 1.0.
StatedDefaults ==
    [isp |-> 1 * FScale, eta |-> 1 * FScale, alpha |-> (1 * FScale) \div 10,
     v0 |-> 1 * FScale]
WithStatedDefaults(ps) == [k \in ParamKeys |-> Get(ps, k, StatedDefaults[k])]

NoDvRet == [kind |-> "none", value |-> 0]
NoDvFirst == [ret |-> NoDvRet, params |-> EmptyDict]

NoState == [x |-> 0, v |-> 0, energy |-> 0, phase |-> 0, time |-> 0]
NoRet == [kind |-> "none", state |-> NoState]
NoResponse == [status |-> 0, error |-> "", state |-> NoState]

GoodConfig == [frequency_hz |-> 1, q_factor |-> 2, beta |-> 0]
Configs ==
    { GoodConfig,
      [frequency_hz |-> 2, q_factor |-> 1, beta |-> 1],
      [frequency_hz |-> 0, q_factor |-> 2, beta |-> 0],
      [frequency_hz |-> 1, q_factor |-> 0, beta |-> 0],
      [frequency_hz |-> 1, q_factor |-> -1, beta |-> 1],
      [frequency_hz |-> 1, beta |-> 0] }

GoodState == [x |-> 3, v |-> -1, energy |-> 5, phase |-> 1]
States ==
    { GoodState,
      [x |-> 0, v |-> 2, energy |-> 5, phase |-> 1],
      [x |-> 3, v |-> -1, energy |-> 5, phase |-> 1, time |-> 2],
      [x |-> 0, v |-> 2, energy |-> 5, phase |-> 1, time |-> -1],
      [x |-> 3, energy |-> 5, phase |-> 1, time |-> 2] }

GoodSignal == [amplitude |-> 3, frequency_hz |-> 1, phase |-> 0]
Signals ==
    { GoodSignal,
      [amplitude |-> 1, frequency_hz |-> 3, phase |-> 2],
      [amplitude |-> 2, frequency_hz |-> 0, phase |-> 1],
      [frequency_hz |-> 1, phase |-> 0] }

Dts == {-1, 0, 1, 2}

\* The other energy and phase fields a caller may send with the same state.
OtherEnergies == {0, 9}
OtherPhases == {1, 4}

\* Request bodies: which top-level keys are present, and their values.
NoBody ==
    [has |-> {}, config |-> EmptyDict, state |-> EmptyDict, input |-> EmptyDict,
     dt |-> 0, steps |-> 0]
SentBodies ==
    { [has |-> TopKeys \cup {"steps"}, config |-> c, state |-> s, input |-> e,
       dt |-> d, steps |-> 2] :
        c \in {GoodConfig, EmptyDict},
        s \in {GoodState, EmptyDict},
        e \in {GoodSignal, EmptyDict},
        d \in {-1, 0, 1} }
\* A body with only the keys of h: an absent key carries no value.
Only(b, h) ==
    [k \in DOMAIN b |-> IF k = "has" THEN h ELSE IF k \in h THEN b[k] ELSE NoBody[k]]
Bodies == {Only(b, h) : b \in SentBodies, h \in SUBSET (TopKeys \cup {"steps"})}

\* -------------------------------------------------------------- state
VARIABLES
    pyfeen,         \* the module-level name: TRUE when the import succeeded
    engine,         \* the installed backend: [hasPhase, validates]
    task,           \* what the caller is doing
    pc,             \* position inside the running call
    config, state, input_signal, dt, steps,    \* simulate_resonator's arguments
    resonator, current_time, i,                \* simulate_resonator's locals
    ticks,          \* tick() calls made by the running call
    reads,          \* subscripts and gets the running call has evaluated
    ret,            \* the running call's outcome
    orig,           \* the first call's state and steps
    first,          \* the first call's outcome, kept for the second
    calls,          \* chained calls completed
    body, response, \* the endpoint's request and response
    samples, params,                 \* compute_delta_v's arguments
    isp, eta, alpha, v0, accumulated,\* compute_delta_v's locals
    idx,            \* position of the loop in samples
    contribs,       \* what each sample so far added to accumulated
    dvret,          \* the running compute_delta_v call's outcome
    dvfirst         \* the first compute_delta_v call's outcome and params

stepperArgs == <<config, state, input_signal, dt, steps>>
stepperLocals == <<resonator, current_time, i, ticks, reads, ret>>
env == <<pyfeen, engine>>
http == <<body, response>>
dvArgs == <<samples, params>>
dvLocals == <<isp, eta, alpha, v0, accumulated, idx, contribs, dvret>>
dv == <<samples, params, isp, eta, alpha, v0, accumulated, idx, contribs, dvret,
        dvfirst>>
vars == <<pyfeen, engine, task, pc, config, state, input_signal, dt, steps,
          resonator, current_time, i, ticks, reads, ret, orig, first, calls,
          body, response, samples, params, isp, eta, alpha, v0, accumulated,
          idx, contribs, dvret, dvfirst>>

FreshLocals ==
    /\ resonator' = NoResonator
    /\ current_time' = 0
    /\ i' = 0
    /\ ticks' = 0
    /\ reads' = {}
    /\ ret' = NoRet

Init ==
    /\ pyfeen \in BOOLEAN
    /\ engine \in [hasPhase : BOOLEAN, validates : BOOLEAN]
    /\ (~pyfeen => engine = [hasPhase |-> FALSE, validates |-> FALSE])
    /\ task = "idle"
    /\ pc = "idle"
    /\ config = EmptyDict /\ state = EmptyDict /\ input_signal = EmptyDict
    /\ dt = 0 /\ steps = 0
    /\ resonator = NoResonator /\ current_time = 0 /\ i = 0
    /\ ticks = 0 /\ reads = {} /\ ret = NoRet
    /\ orig = [state |-> EmptyDict, steps |-> 0]
    /\ first = NoRet
    /\ calls = 0
    /\ body = NoBody /\ response = NoResponse
    /\ samples = <<>> /\ params = EmptyDict
    /\ isp = 0 /\ eta = 0 /\ alpha = 0 /\ v0 = 0 /\ accumulated = 0
    /\ idx = 0 /\ contribs = <<>>
    /\ dvret = NoDvRet /\ dvfirst = NoDvFirst

Finished == pc \in {"returned", "raised"}

\* ------------------------------------------------- simulate_resonator
Raise(kind) == pc' = "raised" /\ ret' = [kind |-> kind, state |-> NoState]

\* Energy and phase carried over from the input state instead of queried.
ResultStateCarried(res, t, hasPhase) ==
    [x |-> res.x, v |-> res.v, energy |-> Get(state, "energy", 0),
     phase |-> Get(state, "phase", 0), time |-> t]

\* The returned dict.
ResultState(res, t, hasPhase) ==
    [x |-> res.x, v |-> res.v, energy |-> TotalEnergy(res),
     phase |-> IF hasPhase THEN PhaseOf(res) ELSE 0, time |-> t]

\* if pyfeen is None: raise RuntimeError
simulate_resonator_enter ==
    /\ pc = "enter"
    /\ IF PyfeenIsNone(pyfeen)
       THEN Raise("RuntimeError")
       ELSE pc' = "construct" /\ UNCHANGED ret
    /\ UNCHANGED <<env, task, stepperArgs, resonator, current_time, i, ticks,
                   reads, orig, first, calls, http, dv>>

\* res_config = ...; resonator = pyfeen.Resonator(res_config);
\* resonator.set_state(state['x'], state['v']); current_time = state.get('time', 0.0)
simulate_resonator_construct ==
    /\ pc = "construct"
    /\ IF FirstMissing(config, ConfigKeys) # 0
       THEN /\ Raise("KeyError")
            /\ reads' = reads \cup Attempted("config", config, ConfigKeys)
            /\ UNCHANGED <<resonator, current_time>>
       ELSE IF engine.validates /\ EngineRejects(config)
       THEN /\ Raise("EngineError")
            /\ reads' = reads \cup Attempted("config", config, ConfigKeys)
            /\ UNCHANGED <<resonator, current_time>>
       ELSE IF FirstMissing(state, StateKeys) # 0
       THEN /\ Raise("KeyError")
            /\ reads' = reads \cup Attempted("config", config, ConfigKeys)
                              \cup Attempted("state", state, StateKeys)
            /\ resonator' = NewResonator(config)
            /\ UNCHANGED current_time
       ELSE /\ pc' = "loop"
            /\ resonator' = [NewResonator(config) EXCEPT !.x = state.x, !.v = state.v]
            /\ current_time' = InitialTime(state)
            /\ reads' = reads \cup Attempted("config", config, ConfigKeys)
                              \cup Attempted("state", state, StateKeys)
                              \cup {<<"state", "time">>}
            /\ UNCHANGED ret
    /\ UNCHANGED <<env, task, stepperArgs, i, ticks, orig, first, calls, http, dv>>

\* One pass of the loop up to set_external_force(force).
simulate_resonator_force ==
    /\ pc = "loop"
    /\ LoopContinues(i, steps)
    /\ reads' = reads \cup Attempted("input_signal", input_signal, SignalKeys)
    /\ IF FirstMissing(input_signal, SignalKeys) # 0
       THEN Raise("KeyError") /\ UNCHANGED resonator
       ELSE /\ pc' = "tick"
            /\ resonator' = [resonator EXCEPT !.force = DriveForce(input_signal, current_time)]
            /\ UNCHANGED ret
    /\ UNCHANGED <<env, task, stepperArgs, current_time, i, ticks, orig, first,
                   calls, http, dv>>

\* resonator.tick(dt); current_time += dt
simulate_resonator_tick ==
    /\ pc = "tick"
    /\ resonator' = Tick(resonator, dt)
    /\ current_time' = NextTime(current_time, dt)
    /\ i' = i + 1
    /\ ticks' = ticks + 1
    /\ pc' = "loop"
    /\ UNCHANGED <<env, task, stepperArgs, reads, ret, orig, first, calls, http, dv>>

\* new_x, new_v = resonator.get_state(); return {...}
simulate_resonator_return ==
    /\ pc = "loop"
    /\ ~LoopContinues(i, steps)
    /\ pc' = "returned"
    /\ ret' = [kind |-> "ok",
               state |-> ResultState(resonator, current_time, engine.hasPhase)]
    /\ UNCHANGED <<env, task, stepperArgs, resonator, current_time, i, ticks,
                   reads, orig, first, calls, http, dv>>

\* ------------------------------------------------------------ callers
\* A direct call simulate_resonator(config, state, input_signal, dt, steps).
CallDirect ==
    /\ task = "idle"
    /\ \E c \in Configs, s \in States, e \in Signals, d \in Dts, n \in 0..MaxSteps :
          /\ config' = c /\ state' = s /\ input_signal' = e /\ dt' = d /\ steps' = n
          /\ orig' = [state |-> s, steps |-> n]
    /\ task' = "batch"
    /\ pc' = "enter"
    /\ UNCHANGED <<env, stepperLocals, first, calls, http, dv>>

\* After the call with steps = N: the first of N calls with steps = 1.
StartChain ==
    /\ task = "batch"
    /\ Finished
    /\ steps >= 1
    /\ first' = ret
    /\ task' = "chain"
    /\ steps' = 1
    /\ calls' = 0
    /\ pc' = "enter"
    /\ FreshLocals
    /\ UNCHANGED <<env, config, state, input_signal, dt, orig, http, dv>>

\* The next chained call takes the state the last one returned.
ChainNext ==
    /\ task = "chain"
    /\ pc = "returned"
    /\ calls + 1 < orig.steps
    /\ state' = ret.state
    /\ calls' = calls + 1
    /\ pc' = "enter"
    /\ FreshLocals
    /\ UNCHANGED <<env, task, config, input_signal, dt, steps, orig, first, http,
                   dv>>

ChainDone ==
    /\ task = "chain"
    /\ pc = "raised" \/ (pc = "returned" /\ calls + 1 = orig.steps)

\* After the call: the same call with other energy and phase fields in state.
StartTwin ==
    /\ task = "batch"
    /\ Finished
    /\ \E e2 \in OtherEnergies, p2 \in OtherPhases :
          /\ <<e2, p2>> # <<state.energy, state.phase>>
          /\ state' = [state EXCEPT !.energy = e2, !.phase = p2]
    /\ first' = ret
    /\ task' = "twin"
    /\ pc' = "enter"
    /\ FreshLocals
    /\ UNCHANGED <<env, config, input_signal, dt, steps, orig, calls, http, dv>>

TwinDone == task = "twin" /\ Finished

\* POST /api/v1/simulate up to the call of simulate_resonator.
simulate ==
    /\ task = "idle"
    /\ \E b \in Bodies :
          /\ body' = b
          /\ IF ~AllTruthy(b)
             THEN /\ response' = [status |-> 400, error |-> "Missing required fields",
                                  state |-> NoState]
                  /\ pc' = "responded"
                  /\ UNCHANGED stepperArgs
             ELSE /\ config' = b.config /\ state' = b.state
                  /\ input_signal' = b.input /\ dt' = b.dt
                  /\ steps' = IF "steps" \in b.has THEN b.steps ELSE 1
                  /\ pc' = "enter"
                  /\ UNCHANGED response
    /\ task' = "http"
    /\ UNCHANGED <<env, stepperLocals, orig, first, calls, dv>>

\* return jsonify({"state": new_state}) / except Exception: return ..., 500
simulate_respond ==
    /\ task = "http"
    /\ Finished
    /\ response' = IF ret.kind = "ok"
                   THEN [status |-> 200, error |-> "", state |-> ret.state]
                   ELSE [status |-> 500, error |-> ret.kind, state |-> NoState]
    /\ pc' = "responded"
    /\ UNCHANGED <<env, task, stepperArgs, stepperLocals, orig, first, calls, body,
                   dv>>

\* ---------------------------------------------------- compute_delta_v
stepper == <<stepperArgs, stepperLocals, orig, first, calls>>

DvFinished == pc \in {"dv_returned", "dv_raised"}
DvRaise(kind) == pc' = "dv_raised" /\ dvret' = [kind |-> kind, value |-> 0]

\* isp = params.get('isp', 1.0) ... accumulated = 0.0
compute_delta_v_enter ==
    /\ pc = "dv_enter"
    /\ isp' = ParamOf(params, "isp")
    /\ eta' = ParamOf(params, "eta")
    /\ alpha' = ParamOf(params, "alpha")
    /\ v0' = ParamOf(params, "v0")
    /\ accumulated' = 0
    /\ idx' = 1
    /\ pc' = "dv_loop"
    /\ UNCHANGED <<env, task, stepper, http, dvArgs, contribs, dvret, dvfirst>>

\* One pass of "for s in samples".
compute_delta_v_sample ==
    /\ pc = "dv_loop"
    /\ idx <= Len(samples)
    /\ LET s == samples[idx]
       IN  IF FirstMissing(s, SampleKeys) # 0
           THEN DvRaise("KeyError") /\ UNCHANGED <<accumulated, idx, contribs>>
           ELSE IF PyOverflows(s.workload)
           THEN DvRaise("OverflowError") /\ UNCHANGED <<accumulated, idx, contribs>>
           ELSE /\ accumulated' = FAdd(accumulated, Contribution(s, alpha, v0))
                /\ contribs' = Append(contribs, Contribution(s, alpha, v0))
                /\ idx' = idx + 1
                /\ UNCHANGED <<pc, dvret>>
    /\ UNCHANGED <<env, task, stepper, http, dvArgs, isp, eta, alpha, v0, dvfirst>>

\* outer_scale = ...; return outer_scale * accumulated
compute_delta_v_return ==
    /\ pc = "dv_loop"
    /\ idx > Len(samples)
    /\ IF PyOverflows(v0)
       THEN DvRaise("OverflowError")
       ELSE /\ pc' = "dv_returned"
            /\ dvret' = [kind |-> "ok",
                         value |-> Scaled(OuterScale(isp, eta, alpha, v0), accumulated)]
    /\ UNCHANGED <<env, task, stepper, http, dvArgs, isp, eta, alpha, v0,
                   accumulated, idx, contribs, dvfirst>>

\* A call compute_delta_v(samples, params).
CallDeltaV ==
    /\ task = "idle"
    /\ \E ss \in SampleSeqs, ps \in ParamDicts : samples' = ss /\ params' = ps
    /\ task' = "dv"
    /\ pc' = "dv_enter"
    /\ UNCHANGED <<env, stepper, http, dvLocals, dvfirst>>

\* After the call: the same samples, the omitted params given as stated.
StartDefaultsTwin ==
    /\ task = "dv"
    /\ DvFinished
    /\ DOMAIN params # ParamKeys
    /\ params' = WithStatedDefaults(params)
    /\ dvfirst' = [ret |-> dvret, params |-> params]
    /\ task' = "dv_defaults"
    /\ pc' = "dv_enter"
    /\ isp' = 0 /\ eta' = 0 /\ alpha' = 0 /\ v0' = 0 /\ accumulated' = 0
    /\ idx' = 0 /\ contribs' = <<>> /\ dvret' = NoDvRet
    /\ UNCHANGED <<env, stepper, http, samples>>

DefaultsTwinDone == task = "dv_defaults" /\ DvFinished

Next ==
    \/ simulate_resonator_enter
    \/ simulate_resonator_construct
    \/ simulate_resonator_force
    \/ simulate_resonator_tick
    \/ simulate_resonator_return
    \/ CallDirect
    \/ StartChain
    \/ ChainNext
    \/ StartTwin
    \/ simulate
    \/ simulate_respond
    \/ compute_delta_v_enter
    \/ compute_delta_v_sample
    \/ compute_delta_v_return
    \/ CallDeltaV
    \/ StartDefaultsTwin

Spec == Init /\ [][Next]_vars

\* ------------------------------------------------------------- claims
InStepper == pc \in {"enter", "construct", "loop", "tick", "returned", "raised"}
AnyMissing == \E k \in 1..Len(samples) : FirstMissing(samples[k], SampleKeys) # 0

\* C1: one call with steps = N ends as N chained calls with steps = 1 do,
\* each taking the state the call before it returned: the same x, v, energy,
\* phase and time, or the same error.
StepperComposable == ChainDone => ret = first

\* C1's case: a chain of at least two calls that returned a state, under a
\* drive whose force changes from step to step.
StepperComposableWitness ==
    /\ ChainDone
    /\ ret.kind = "ok"
    /\ orig.steps >= 2
    /\ dt # 0
    /\ input_signal.frequency_hz # 0
    /\ Has(orig.state, "time")
    /\ ret.state.x # PropNaN

\* C2: a config whose frequency_hz or q_factor is non-positive is rejected:
\* no propagator advance is made and no state is returned for it.
NonPositiveConfigRejected ==
    (/\ InStepper
     /\ Has(config, "frequency_hz") /\ Has(config, "q_factor")
     /\ (config.frequency_hz <= 0 \/ config.q_factor <= 0))
    => (ticks = 0 /\ pc \notin {"tick", "returned"})

\* C3: without pyfeen every call fails with the availability error before it
\* reads a field of config, state or input_signal, constructs a resonator or
\* makes a step, and the endpoint answers such a call with status 500.
UnavailableFailsFirst ==
    ~pyfeen =>
        /\ pc \notin {"construct", "loop", "tick", "returned"}
        /\ reads = {} /\ ticks = 0 /\ ~resonator.made
        /\ (pc = "raised" => ret.kind = "RuntimeError")
        /\ (task = "http" /\ pc = "responded" /\ AllTruthy(body)
               => response.status = 500 /\ response.error = "RuntimeError")

\* C3's case: the endpoint has answered a call made without pyfeen.
UnavailableWitness ==
    /\ ~pyfeen
    /\ task = "http" /\ pc = "responded"
    /\ response.status = 500
    /\ ret.kind = "RuntimeError"

\* C4: for an empty sample sequence compute_delta_v returns 0.0, whatever
\* the params.
EmptySamplesGiveZero ==
    (task = "dv" /\ DvFinished /\ samples = <<>>)
    => dvret = [kind |-> "ok", value |-> 0]

\* C5: a sample whose inertia is at or below the floor adds to accumulated
\* exactly what the same sample with inertia = floor adds, and the sign of
\* what it adds is that of p_input * dt, never flipped by the inertia.
InertiaFloorHolds ==
    \A k \in 1..Len(contribs) :
        LET s == samples[k]
        IN  /\ s.inertia <= INERTIA_FLOOR
                => contribs[k] = Contribution([s EXCEPT !.inertia = INERTIA_FLOOR],
                                              alpha, v0)
            /\ IsFinite(contribs[k])
                => Sign(contribs[k]) \in {0, Sign(s.p_input) * Sign(s.dt)}

\* C5's case: a sample of zero or negative inertia has added a finite,
\* non-zero amount.
InertiaFloorWitness ==
    \E k \in 1..Len(contribs) :
        /\ samples[k].inertia < INERTIA_FLOOR
        /\ IsFinite(contribs[k])
        /\ contribs[k] # 0

\* C6: compute_delta_v fails, with the data error, exactly when some sample
\* lacks one of its five fields; with all fields present it returns a value.
FailsIffFieldMissing ==
    (task = "dv" /\ DvFinished)
    => /\ AnyMissing => dvret.kind = "KeyError"
       /\ ~AnyMissing => dvret.kind = "ok"

\* C7: the endpoint answers "Missing required fields", without calling the
\* stepper, exactly when config, state, input or dt is absent from the body;
\* a body carrying all four is passed to the stepper.
MissingIffAbsent ==
    (task = "http")
    => /\ (response.error = "Missing required fields") <=> ~(TopKeys \subseteq body.has)
       /\ (TopKeys \subseteq body.has) => (InStepper \/ response.status \in {200, 500})

\* C8: with any keys omitted from params compute_delta_v ends as it does
\* when they are given as isp = 1.0, eta = 1.0, alpha = 0.1, v0 = 1.0.
DefaultsAreStated == DefaultsTwinDone => dvret = dvfirst.ret

\* C8's case: alpha and v0 were omitted and a finite non-zero value returned.
DefaultsWitness ==
    /\ DefaultsTwinDone
    /\ ~Has(dvfirst.params, "alpha") /\ ~Has(dvfirst.params, "v0")
    /\ dvret.kind = "ok"
    /\ IsFinite(dvret.value) /\ dvret.value # 0

\* C9: with t0 the time of the input state (0 when absent), iteration k
\* starts with current_time = t0 + k * dt and k advances made, the force set
\* before the k-th advance is amplitude * cos(2 pi f (t0 + k dt) + phase),
\* current_time moves only with the advance, and the call returns after
\* exactly steps advances with time = t0 + steps * dt.
TimeForceBookkeeping ==
    LET t0 == IF Has(state, "time") THEN state.time ELSE 0
    IN  /\ pc \in {"loop", "tick"} => current_time = t0 + i * dt /\ ticks = i
        /\ pc = "tick"
              => resonator.force =
                     input_signal.amplitude
                     * Cos8(input_signal.frequency_hz * (t0 + i * dt)
                            + input_signal.phase)
        /\ pc = "loop" => i <= steps
        /\ pc = "returned" => ticks = steps /\ ret.state.time = t0 + steps * dt

\* C9's case: a call of several steps from a non-zero start time returned.
TimeForceWitness ==
    /\ pc = "returned"
    /\ steps >= 2
    /\ dt # 0
    /\ Has(state, "time") /\ state.time # 0
    /\ input_signal.phase # 0 /\ input_signal.frequency_hz # 0

\* C10: the returned energy and phase are the propagator's after the last
\* advance (phase 0 without the capability), and a call that differs from
\* another only in state.energy and state.phase ends as the other does.
EnergyPhaseFresh ==
    /\ pc = "returned"
          => /\ ret.state.energy = TotalEnergy(resonator)
             /\ ret.state.phase = (IF engine.hasPhase THEN PhaseOf(resonator) ELSE 0)
             /\ ticks = steps
    /\ TwinDone => ret = first

\* C10's case: the second call, with other energy and phase, returned a
\* state after at least one advance.
EnergyPhaseWitness ==
    /\ TwinDone
    /\ ret.kind = "ok"
    /\ steps >= 1
    /\ state.energy # orig.state.energy /\ state.phase # orig.state.phase
    /\ engine.hasPhase

=============================================================================
